---- MODULE Spec2Model ----
(***************************************************************************)
(* Model of missing_greenlet_error.py: two mapped record kinds (PirateCrew *)
(* and Pirate), the table-creation and seeding routines, and the three     *)
(* read routines that show when the PirateCrew.members relationship is     *)
(* resolved relative to the AsyncSession scope.                            *)
(*                                                                         *)
(* A behaviour is a series of process executions against one database.     *)
(* Each execution runs one routine to completion (the line left            *)
(* uncommented under __main__).  The database outlives the process; every  *)
(* other variable is per-process state.                                    *)
(***************************************************************************)
EXTENDS Integers, Sequences, FiniteSets

\* Number of process executions explored against the same database.
MaxRuns == 3

VARIABLES
  tables,       \* storage: the two tables exist (committed DDL)
  crewRows,     \* storage: committed rows of pirate_crew
  pirateRows,   \* storage: committed rows of pirates
  txTables,     \* DDL issued inside the open engine.begin() transaction
  txCrew,       \* pirate_crew rows inserted by the session's open transaction
  txPirates,    \* pirates rows inserted by the session's open transaction
  runs,         \* process executions started so far
  routine,      \* the routine this execution runs
  pc,           \* the statement the routine is at
  connScope,    \* the engine.begin() connection scope of create_tables
  sessScope,    \* the async_session() scope of the routine
  pending,      \* objects added to the session and not yet flushed
  mugiwaraId,   \* primary key given to the new PirateCrew by its INSERT (0: none yet)
  pirate_crew,  \* local pirate_crew: <<>> or <<the fetched object>>
  members,      \* local members: <<>> or <<the collection>>
  printed,      \* what print() wrote: <<>> or <<the collection>>
  error,        \* the exception propagating out of the routine, "none" if none
  relQueries,   \* relationship SELECTs issued by this execution, in order
  startCrew,    \* crewRows when this execution started
  startPirates  \* pirateRows when this execution started

vars == <<tables, crewRows, pirateRows, txTables, txCrew, txPirates, runs,
          routine, pc, connScope, sessScope, pending, mugiwaraId, pirate_crew,
          members, printed, error, relQueries, startCrew, startPirates>>

storage == <<tables, crewRows, pirateRows>>
locals  == <<pending, mugiwaraId, pirate_crew, members, printed, relQueries>>
history == <<runs, routine, startCrew, startPirates>>

ReadRoutines ==
  {"missing_greenlet_error", "fix_with_loading_techniques", "fix_with_async_attrs"}

Routines == {"initial_setup"} \cup ReadRoutines

(***************************************************************************)
(* Control flow.  A statement label names the statement about to run.      *)
(***************************************************************************)

\* The first statement of a routine.
Entry(r) == IF r = "initial_setup" THEN "ct_enter" ELSE "enter"

\* A slip: db_seeder() started inside create_tables' connection block.
AfterSeedInsideConnection(r, at) ==
  CASE at = "ct_enter"  -> "ct_create"
    [] at = "ct_create" -> "enter"
    [] at = "ct_exit"   -> "enter"
    [] at = "enter"     -> IF r = "initial_setup" THEN "add" ELSE "fetch"
    [] at = "add"       -> "flush"
    [] at = "flush"     -> "commit"
    [] at = "commit"    -> "exit"
    [] at = "fetch"     -> IF r = "fix_with_async_attrs" THEN "await" ELSE "access"
    [] at = "access"    -> "print"
    [] at = "await"     -> "print"
    [] at = "print"     -> "exit"
    [] OTHER            -> "done"

\* A slip: the awaited access of fix_with_async_attrs dedented out of the
\* async with block.
AfterAwaitOutsideScope(r, at) ==
  CASE at = "ct_enter"  -> "ct_create"
    [] at = "ct_create" -> "ct_exit"
    [] at = "ct_exit"   -> "enter"
    [] at = "enter"     -> IF r = "initial_setup" THEN "add" ELSE "fetch"
    [] at = "add"       -> "flush"
    [] at = "flush"     -> "commit"
    [] at = "commit"    -> "exit"
    [] at = "fetch"     -> IF r = "fix_with_async_attrs" THEN "exit" ELSE "access"
    [] at = "exit"      -> IF r = "fix_with_async_attrs" THEN "await" ELSE "done"
    [] at = "access"    -> "print"
    [] at = "await"     -> "print"
    [] at = "print"     -> IF r = "fix_with_async_attrs" THEN "done" ELSE "exit"
    [] OTHER            -> "done"

\* The statement that follows statement `at` of routine r when `at` completes
\* without raising.
After(r, at) ==
  CASE at = "ct_enter"  -> "ct_create"
    [] at = "ct_create" -> "ct_exit"
    [] at = "ct_exit"   -> "enter"
    [] at = "enter"     -> IF r = "initial_setup" THEN "add" ELSE "fetch"
    [] at = "add"       -> "flush"
    [] at = "flush"     -> "commit"
    [] at = "commit"    -> "exit"
    [] at = "fetch"     -> IF r = "fix_with_async_attrs" THEN "await" ELSE "access"
    [] at = "access"    -> "print"
    [] at = "await"     -> "print"
    [] at = "print"     -> "exit"
    [] OTHER            -> "done"

\* A slip: the session released only when the block ends normally.
ScopeLeakedOnRaise(at) == IF at = "raise" THEN "Open" ELSE "Closed"

\* The session scope after the async with block is left at `at`: "exit" (its
\* end was reached) or "raise" (an exception is propagating out of it).
ScopeAfterExit(at) == "Closed"

(***************************************************************************)
(* The objects db_seeder constructs.                                       *)
(***************************************************************************)

mugiwara ==
  [kind |-> "PirateCrew", name |-> "Straw Hats", ship_name |-> "Thousand Sunny"]

mugiwara_members ==
  << [kind |-> "Pirate", name |-> "Monkey D Luffy", role |-> "Captain",
      devil_fruit_user |-> TRUE],
     [kind |-> "Pirate", name |-> "Roronoa zoro", role |-> "First Mate",
      devil_fruit_user |-> FALSE],
     [kind |-> "Pirate", name |-> "Nami", role |-> "Navigator",
      devil_fruit_user |-> FALSE] >>

(***************************************************************************)
(* Storage.                                                                *)
(***************************************************************************)

Ids(rows) == {x.id : x \in rows}

MaxId(rows) == IF rows = {} THEN 0 ELSE CHOOSE i \in Ids(rows) : \A j \in Ids(rows) : j <= i

\* The primary key the database generates for a row inserted into a table
\* that holds `rows` (id is an integer primary key with no explicit value).
NextId(rows) == MaxId(rows) + 1

\* A variant: name declared unique.
CrewConflictUniqueName(row, rows) ==
  row.id \in Ids(rows) \/ \E x \in rows : x.name = row.name

\* Whether the INSERT of row into pirate_crew, which holds rows, violates a
\* constraint of the table: id is its primary key, and name and ship_name
\* carry no constraint.
CrewConflict(row, rows) == row.id \in Ids(rows)

\* The same for pirates: the primary key, and the foreign key to pirate_crew
\* (crews are the pirate_crew rows; 0 stands for NULL).
PirateConflict(row, rows, crews) ==
  \/ row.id \in Ids(rows)
  \/ row.pirate_crew_id # 0 /\ row.pirate_crew_id \notin Ids(crews)

CrewRow(obj, id) == [id |-> id, name |-> obj.name, ship_name |-> obj.ship_name]

\* A slip: the relationship to the crew not set, the foreign key left NULL (0).
PirateRowNoCrew(obj, id, crew_id) ==
  [id |-> id, name |-> obj.name, role |-> obj.role,
   devil_fruit_user |-> obj.devil_fruit_user, pirate_crew_id |-> 0]

\* The row of a Pirate whose pirate_crew relationship points at the crew with
\* primary key crew_id.
PirateRow(obj, id, crew_id) ==
  [id |-> id, name |-> obj.name, role |-> obj.role,
   devil_fruit_user |-> obj.devil_fruit_user, pirate_crew_id |-> crew_id]

\* A slip: a session that commits every statement as it is issued.
DurableAutocommit(committed, tx) == committed \cup tx

\* The committed rows of a table after an INSERT of the session's open
\* transaction, whose rows so far are tx: nothing is durable before COMMIT.
DurableAfterInsert(committed, tx) == committed

(***************************************************************************)
(* Relationship loading.                                                   *)
(***************************************************************************)

\* The rows the members relationship of the crew with primary key crew_id
\* selects (pirates.pirate_crew_id = pirate_crew.id).
ResolveMembers(crew_id) == {p \in pirateRows : p.pirate_crew_id = crew_id}

\* A slip: no loader option given to the select.
LoadOptionsNone(r) == {}

\* The loader options of the select each read routine executes.
LoadOptions(r) ==
  IF r = "fix_with_loading_techniques" THEN {"selectinload(members)"} ELSE {}

\* A slip: the batched SELECT issued even when the parent query found no row.
SelectInAlways(opts, parents, scope) ==
  IF "selectinload(members)" \in opts
    THEN << [at |-> "fetch", scope |-> scope, parents |-> Ids(parents)] >>
    ELSE << >>

\* The relationship SELECTs that executing the select issues after the parent
\* rows arrived: selectinload emits one, keyed by all the parents' primary keys.
SelectInQueries(opts, parents, scope) ==
  IF "selectinload(members)" \in opts /\ parents # {}
    THEN << [at |-> "fetch", scope |-> scope, parents |-> Ids(parents)] >>
    ELSE << >>

\* The object the select yields for a pirate_crew row.
Fetched(row, opts) ==
  [row    |-> row,
   loaded |-> "selectinload(members)" \in opts,
   items  |-> IF "selectinload(members)" \in opts THEN ResolveMembers(row.id) ELSE {}]

\* A slip: the synchronous ORM's loader, which needs no greenlet.
LazyLoadSync(obj, scope, greenlet) ==
  IF scope # "Open"
    THEN [error |-> "DetachedInstanceError", items |-> {}, queried |-> FALSE]
    ELSE [error |-> "none", items |-> ResolveMembers(obj.row.id), queried |-> TRUE]

\* A slip: a loader that goes on using the connection of a closed session.
LazyLoadDetached(obj, scope, greenlet) ==
  IF ~greenlet
    THEN [error |-> "MissingGreenlet", items |-> {}, queried |-> FALSE]
    ELSE [error |-> "none", items |-> ResolveMembers(obj.row.id), queried |-> TRUE]

\* The lazy load of obj.members.  It needs the object's session (an object
\* whose session was closed is detached) and then a round trip, which the
\* async driver can only make where it can suspend: under awaitable_attrs
\* (greenlet), not in a plain attribute access.
LazyLoad(obj, scope, greenlet) ==
  IF scope # "Open"
    THEN [error |-> "DetachedInstanceError", items |-> {}, queried |-> FALSE]
  ELSE IF ~greenlet
    THEN [error |-> "MissingGreenlet", items |-> {}, queried |-> FALSE]
  ELSE [error |-> "none", items |-> ResolveMembers(obj.row.id), queried |-> TRUE]

\* Reading obj.members: the collection when it is loaded, a lazy load otherwise.
GetMembers(obj, scope, greenlet) ==
  IF obj.loaded
    THEN [error |-> "none", items |-> obj.items, queried |-> FALSE]
    ELSE LazyLoad(obj, scope, greenlet)

\* The errors the specification calls ScopeResolutionError.
ScopeResolutionError == {"MissingGreenlet", "DetachedInstanceError"}

(***************************************************************************)
(* Initial state: a database the program has never touched, no process.    *)
(***************************************************************************)

Init ==
  /\ tables = FALSE
  /\ crewRows = {}
  /\ pirateRows = {}
  /\ txTables = FALSE
  /\ txCrew = {}
  /\ txPirates = {}
  /\ runs = 0
  /\ routine = "none"
  /\ pc = "idle"
  /\ connScope = "Closed"
  /\ sessScope = "Closed"
  /\ pending = << >>
  /\ mugiwaraId = 0
  /\ pirate_crew = << >>
  /\ members = << >>
  /\ printed = << >>
  /\ error = "none"
  /\ relQueries = << >>
  /\ startCrew = {}
  /\ startPirates = {}

\* __main__: a process execution starts and runs one routine; the previous
\* process, if any, has ended.
Start ==
  /\ pc \in {"idle", "done", "failed"}
  /\ runs < MaxRuns
  /\ runs' = runs + 1
  /\ \E r \in Routines :
       /\ routine' = r
       /\ pc' = Entry(r)
  /\ connScope' = "Closed"
  /\ sessScope' = "Closed"
  /\ txTables' = FALSE
  /\ txCrew' = {}
  /\ txPirates' = {}
  /\ pending' = << >>
  /\ mugiwaraId' = 0
  /\ pirate_crew' = << >>
  /\ members' = << >>
  /\ printed' = << >>
  /\ error' = "none"
  /\ relQueries' = << >>
  /\ startCrew' = crewRows
  /\ startPirates' = pirateRows
  /\ UNCHANGED storage

(***************************************************************************)
(* create_tables                                                           *)
(***************************************************************************)

\* async with engine.begin() as connection
ConnEnter ==
  /\ pc = "ct_enter"
  /\ connScope' = "Open"
  /\ pc' = After(routine, "ct_enter")
  /\ UNCHANGED <<storage, txTables, txCrew, txPirates, sessScope, locals, error, history>>

\* await connection.run_sync(Base.metadata.create_all)
CreateAll ==
  /\ pc = "ct_create"
  /\ txTables' = TRUE
  /\ pc' = After(routine, "ct_create")
  /\ UNCHANGED <<storage, txCrew, txPirates, connScope, sessScope, locals, error, history>>

\* The same statement when the storage engine fails it.
CreateAllFail ==
  /\ pc = "ct_create"
  /\ error' = "OperationalError"
  /\ pc' = "ct_raise"
  /\ UNCHANGED <<storage, txTables, txCrew, txPirates, connScope, sessScope, locals, history>>

\* Leaving the engine.begin() block: commit at its end, roll back when an
\* exception leaves it; the connection is released either way.  An exception
\* ends initial_setup (await create_tables_task re-raises it).
ConnExit ==
  /\ pc \in {"ct_exit", "ct_raise"}
  /\ tables' = IF pc = "ct_exit" THEN (tables \/ txTables) ELSE tables
  /\ txTables' = FALSE
  /\ connScope' = "Closed"
  /\ pc' = IF pc = "ct_exit" THEN After(routine, "ct_exit") ELSE "failed"
  /\ UNCHANGED <<crewRows, pirateRows, txCrew, txPirates, sessScope, locals, error, history>>

(***************************************************************************)
(* The session scope of db_seeder and of the read routines.                *)
(***************************************************************************)

\* async with async_session() as session
SessionEnter ==
  /\ pc = "enter"
  /\ sessScope' = "Open"
  /\ pc' = After(routine, "enter")
  /\ UNCHANGED <<storage, txTables, txCrew, txPirates, connScope, locals, error, history>>

\* Leaving the async with block: the session is closed, which rolls back
\* whatever its transaction has not committed, and an exception goes on to
\* the process boundary.
SessionExit ==
  /\ pc \in {"exit", "raise"}
  /\ sessScope' = ScopeAfterExit(pc)
  /\ txCrew' = {}
  /\ txPirates' = {}
  /\ pc' = IF pc = "exit" THEN After(routine, "exit") ELSE "failed"
  /\ UNCHANGED <<storage, txTables, connScope, locals, error, history>>

(***************************************************************************)
(* db_seeder                                                               *)
(***************************************************************************)

\* mugiwara = ..., mugiwara_members = [...], session.add, session.add_all
SeederAdd ==
  /\ pc = "add"
  /\ pending' = <<mugiwara>> \o mugiwara_members
  /\ pc' = After(routine, "add")
  /\ UNCHANGED <<storage, txTables, txCrew, txPirates, connScope, sessScope,
                 mugiwaraId, pirate_crew, members, printed, relQueries, error, history>>

\* await session.commit(), the flush: one INSERT per pending object, the crew
\* before the pirates that refer to it.
Flush ==
  /\ pc = "flush"
  /\ pending # << >>
  /\ LET obj   == Head(pending)
         isCrew == obj.kind = "PirateCrew"
         id    == IF isCrew THEN NextId(crewRows \cup txCrew)
                            ELSE NextId(pirateRows \cup txPirates)
         row   == IF isCrew THEN CrewRow(obj, id) ELSE PirateRow(obj, id, mugiwaraId)
         err   == IF ~tables THEN "ProgrammingError"
                  ELSE IF isCrew /\ CrewConflict(row, crewRows \cup txCrew)
                    THEN "IntegrityError"
                  ELSE IF ~isCrew /\ PirateConflict(row, pirateRows \cup txPirates,
                                                    crewRows \cup txCrew)
                    THEN "IntegrityError"
                  ELSE "none"
     IN /\ error' = err
        /\ IF err = "none"
             THEN /\ txCrew' = IF isCrew THEN txCrew \cup {row} ELSE txCrew
                  /\ txPirates' = IF isCrew THEN txPirates ELSE txPirates \cup {row}
                  /\ mugiwaraId' = IF isCrew THEN id ELSE mugiwaraId
                  /\ pending' = Tail(pending)
                  /\ pc' = IF Tail(pending) = << >> THEN After(routine, "flush") ELSE pc
             ELSE /\ UNCHANGED <<txCrew, txPirates, mugiwaraId, pending>>
                  /\ pc' = "raise"
        /\ crewRows' = DurableAfterInsert(crewRows, txCrew')
        /\ pirateRows' = DurableAfterInsert(pirateRows, txPirates')
  /\ UNCHANGED <<tables, txTables, connScope, sessScope, pirate_crew, members,
                 printed, relQueries, history>>

\* An INSERT of the flush when the storage engine fails it.
FlushFail ==
  /\ pc = "flush"
  /\ pending # << >>
  /\ error' = "OperationalError"
  /\ pc' = "raise"
  /\ UNCHANGED <<storage, txTables, txCrew, txPirates, connScope, sessScope, locals, history>>

\* await session.commit(), the COMMIT: the transaction's rows become durable
\* together.
Commit ==
  /\ pc = "commit"
  /\ crewRows' = crewRows \cup txCrew
  /\ pirateRows' = pirateRows \cup txPirates
  /\ txCrew' = {}
  /\ txPirates' = {}
  /\ pc' = After(routine, "commit")
  /\ UNCHANGED <<tables, txTables, connScope, sessScope, locals, error, history>>

\* The COMMIT when the storage engine fails it: nothing becomes durable.
CommitFail ==
  /\ pc = "commit"
  /\ error' = "OperationalError"
  /\ pc' = "raise"
  /\ UNCHANGED <<storage, txTables, txCrew, txPirates, connScope, sessScope, locals, history>>

(***************************************************************************)
(* The read routines.                                                      *)
(***************************************************************************)

\* (await session.execute(select(PirateCrew)...)) against a database without
\* the tables: the statement fails.
FetchNoTable ==
  /\ pc = "fetch"
  /\ ~tables
  /\ error' = "ProgrammingError"
  /\ pc' = "raise"
  /\ UNCHANGED <<storage, txTables, txCrew, txPirates, connScope, sessScope, locals, history>>

\* ... .all()[0][0] when the select found no row: indexing the empty list.
FetchNoRow ==
  /\ pc = "fetch"
  /\ tables
  /\ crewRows = {}
  /\ relQueries' = relQueries \o SelectInQueries(LoadOptions(routine), crewRows, sessScope)
  /\ error' = "IndexError"
  /\ pc' = "raise"
  /\ UNCHANGED <<storage, txTables, txCrew, txPirates, connScope, sessScope,
                 pending, mugiwaraId, pirate_crew, members, printed, history>>

\* ... .all()[0][0] when the select found rows: the first of them, in the
\* order the database returns them (the select has no ORDER BY).
FetchRow ==
  /\ pc = "fetch"
  /\ tables
  /\ \E row \in crewRows :
       pirate_crew' = << Fetched(row, LoadOptions(routine)) >>
  /\ relQueries' = relQueries \o SelectInQueries(LoadOptions(routine), crewRows, sessScope)
  /\ pc' = After(routine, "fetch")
  /\ UNCHANGED <<storage, txTables, txCrew, txPirates, connScope, sessScope,
                 pending, mugiwaraId, members, printed, error, history>>

\* Reading pirate_crew.members at statement `at`, plainly or awaited.
ReadMembers(at, greenlet) ==
  /\ pc = at
  /\ pirate_crew # << >>
  /\ LET obj == pirate_crew[1]
         res == GetMembers(obj, sessScope, greenlet)
     IN /\ error' = res.error
        /\ relQueries' = IF res.queried
                           THEN Append(relQueries, [at |-> at, scope |-> sessScope,
                                                    parents |-> {obj.row.id}])
                           ELSE relQueries
        /\ IF res.error = "none"
             THEN /\ members' = << res.items >>
                  /\ pirate_crew' = << [obj EXCEPT !.loaded = TRUE, !.items = res.items] >>
                  /\ pc' = After(routine, at)
             ELSE /\ UNCHANGED <<members, pirate_crew>>
                  /\ pc' = "raise"
  /\ UNCHANGED <<storage, txTables, txCrew, txPirates, connScope, sessScope,
                 pending, mugiwaraId, printed, history>>

\* members = pirate_crew.members
AccessMembers == ReadMembers("access", FALSE)

\* members = await pirate_crew.awaitable_attrs.members
AwaitMembers == ReadMembers("await", TRUE)

\* print(members)
PrintMembers ==
  /\ pc = "print"
  /\ printed' = members
  /\ pc' = After(routine, "print")
  /\ UNCHANGED <<storage, txTables, txCrew, txPirates, connScope, sessScope,
                 pending, mugiwaraId, pirate_crew, members, relQueries, error, history>>

Next ==
  \/ Start
  \/ ConnEnter
  \/ CreateAll
  \/ CreateAllFail
  \/ ConnExit
  \/ SessionEnter
  \/ SessionExit
  \/ SeederAdd
  \/ Flush
  \/ FlushFail
  \/ Commit
  \/ CommitFail
  \/ FetchNoTable
  \/ FetchNoRow
  \/ FetchRow
  \/ AccessMembers
  \/ AwaitMembers
  \/ PrintMembers

Spec == Init /\ [][Next]_vars

\* asyncio.run drives the one routine to completion: a step that can be taken
\* is taken.
FairSpec == Spec /\ WF_vars(Next)

(***************************************************************************)
(* Properties.                                                             *)
(***************************************************************************)

ExpectedNames == {"Monkey D Luffy", "Roronoa zoro", "Nami"}

Names(rows) == {p.name : p \in rows}

\* The database held a crew when this execution started.
SeededAtStart == startCrew # {}

\* A collection of exactly the three seeded members.
ThreeMembers(c) ==
  /\ c # << >>
  /\ Cardinality(c[1]) = 3
  /\ Names(c[1]) = ExpectedNames

Terminated == pc \in {"done", "failed"}

\* C1: the naive read of a seeded database always ends in MissingGreenlet (a
\* ScopeResolutionError): the fetched crew's members stay unloaded, the
\* routine never gets past the access, and it reads and prints no collection.
C1_NaiveReadRaises ==
  (routine = "missing_greenlet_error" /\ SeededAtStart) =>
    /\ pc \notin {"print", "exit", "done"}
    /\ members = << >>
    /\ printed = << >>
    /\ relQueries = << >>
    /\ pirate_crew # << >> => ~pirate_crew[1].loaded
    /\ pc \in {"raise", "failed"} =>
         (error = "MissingGreenlet" /\ error \in ScopeResolutionError)

C1_Witness ==
  /\ routine = "missing_greenlet_error"
  /\ SeededAtStart
  /\ pc = "failed"
  /\ error = "MissingGreenlet"
  /\ pirate_crew # << >>

\* C2: the eager-load read of a seeded database reads and prints a collection
\* of three members named Monkey D Luffy, Roronoa zoro and Nami; the only
\* relationship round trip is the one batched SELECT of the fetch, and the
\* collection is loaded before it is read.
C2_EagerLoadSucceeds ==
  (routine = "fix_with_loading_techniques" /\ SeededAtStart) =>
    /\ pc \notin {"raise", "failed"}
    /\ error = "none"
    /\ pc \in {"access", "print", "exit", "done"} =>
         /\ pirate_crew[1].loaded
         /\ relQueries = << [at |-> "fetch", scope |-> "Open", parents |-> Ids(crewRows)] >>
    /\ pc \in {"print", "exit", "done"} =>
         /\ ThreeMembers(members)
         /\ members[1] = ResolveMembers(pirate_crew[1].row.id)
    /\ pc \in {"exit", "done"} => printed = members

C2_Witness ==
  /\ routine = "fix_with_loading_techniques"
  /\ SeededAtStart
  /\ pc = "done"
  /\ ThreeMembers(printed)
  /\ Len(relQueries) = 1

\* C3: the awaited read of a seeded database reads and prints the same three
\* members; the fetch leaves the collection unloaded and issues no
\* relationship round trip, and the one round trip is issued by the awaited
\* access, with the session scope open.
C3_AwaitedAccessSucceeds ==
  (routine = "fix_with_async_attrs" /\ SeededAtStart) =>
    /\ pc \notin {"raise", "failed"}
    /\ error = "none"
    /\ pc = "await" =>
         /\ ~pirate_crew[1].loaded
         /\ relQueries = << >>
         /\ sessScope = "Open"
    /\ pc \in {"print", "exit", "done"} =>
         /\ ThreeMembers(members)
         /\ members[1] = ResolveMembers(pirate_crew[1].row.id)
         /\ relQueries = << [at |-> "await", scope |-> "Open",
                             parents |-> {pirate_crew[1].row.id}] >>
    /\ pc \in {"exit", "done"} => printed = members

C3_Witness ==
  /\ routine = "fix_with_async_attrs"
  /\ SeededAtStart
  /\ pc = "done"
  /\ ThreeMembers(printed)
  /\ Len(relQueries) = 1
  /\ sessScope = "Closed"

\* C4: when initial_setup completes on a database without rows, storage holds
\* exactly one crew, named Straw Hats with ship Thousand Sunny, and exactly
\* three pirates, each with pirate_crew_id equal to that crew's id.
C4_SeedOnEmpty ==
  (routine = "initial_setup" /\ pc = "done" /\ startCrew = {} /\ startPirates = {}) =>
    /\ Cardinality(crewRows) = 1
    /\ \A g \in crewRows :
         /\ g.name = "Straw Hats"
         /\ g.ship_name = "Thousand Sunny"
         /\ \A p \in pirateRows : p.pirate_crew_id = g.id
    /\ Cardinality(pirateRows) = 3
    /\ Names(pirateRows) = ExpectedNames

C4_Witness ==
  /\ routine = "initial_setup"
  /\ pc = "done"
  /\ startCrew = {}
  /\ crewRows # {}
  /\ pirateRows # {}

\* C5 as amended: re-running the seed against a seeded database raises no
\* IntegrityError; when it completes, the rows it found are still there and
\* storage holds one more crew, with a new id and the same name and ship, and
\* three more pirates, each referring to the new crew.
C5_ReseedDuplicates ==
  (routine = "initial_setup" /\ SeededAtStart) =>
    /\ error # "IntegrityError"
    /\ pc = "done" =>
         /\ error = "none"
         /\ startCrew \subseteq crewRows
         /\ startPirates \subseteq pirateRows
         /\ Cardinality(crewRows \ startCrew) = 1
         /\ Cardinality(pirateRows \ startPirates) = 3
         /\ Names(pirateRows \ startPirates) = ExpectedNames
         /\ \A g \in crewRows \ startCrew :
              /\ g.id \notin Ids(startCrew)
              /\ g.name = "Straw Hats"
              /\ g.ship_name = "Thousand Sunny"
              /\ \A p \in pirateRows \ startPirates :
                   p.pirate_crew_id = g.id /\ p.id \notin Ids(startPirates)

C5_Witness ==
  /\ routine = "initial_setup"
  /\ SeededAtStart
  /\ pc = "done"
  /\ Cardinality(crewRows) = 2

\* C5 as stated: re-running the seed against a seeded database never
\* completes and leaves the stored rows unchanged.
C5_ReseedRejected ==
  (routine = "initial_setup" /\ SeededAtStart) =>
    /\ pc # "done"
    /\ crewRows = startCrew
    /\ pirateRows = startPirates

C7_ScopeReleased ==
  /\ [](Terminated => (sessScope = "Closed" /\ connScope = "Closed"))
  /\ [](pc = "failed" => error # "none")
  /\ (sessScope = "Open") ~> (sessScope = "Closed")
  /\ (connScope = "Open") ~> (connScope = "Closed")

C7_Witness ==
  /\ routine = "missing_greenlet_error"
  /\ pc = "failed"
  /\ error = "MissingGreenlet"
  /\ sessScope = "Closed"

\* C8: at most one scope is open at a time: the connection scope of
\* create_tables is closed before the session scope of db_seeder opens.
C8_OneScopeAtATime ==
  /\ ~(connScope = "Open" /\ sessScope = "Open")
  /\ sessScope = "Open" => (connScope = "Closed" /\ ~txTables)
  /\ (routine = "initial_setup" /\ sessScope = "Open") => tables

C8_Witness ==
  /\ routine = "initial_setup"
  /\ sessScope = "Open"
  /\ connScope = "Closed"
  /\ pc = "flush"

\* C9: committed storage never holds a crew with other than its three
\* pirates, nor a pirate without its crew, and a seed that fails before or
\* during the commit leaves the committed rows as it found them.
C9_SeedAtomic ==
  /\ \A g \in crewRows :
       Cardinality({p \in pirateRows : p.pirate_crew_id = g.id}) = 3
  /\ \A p \in pirateRows : p.pirate_crew_id \in Ids(crewRows)
  /\ (routine = "initial_setup" /\ pc \in {"flush", "commit", "raise", "ct_raise", "failed"}) =>
       (crewRows = startCrew /\ pirateRows = startPirates)

C9_Witness ==
  /\ routine = "initial_setup"
  /\ pc = "raise"
  /\ txCrew # {}
  /\ Cardinality(txPirates) = 2
  /\ crewRows = startCrew

\* C10 as amended: when the tables exist and hold no crew row, each read
\* routine fails with IndexError at the indexing of the fetch result, before
\* any relationship round trip, read of the collection or print; the error
\* is not caught and the session scope is released.
C10_EmptyTableIndexError ==
  (routine \in ReadRoutines /\ tables /\ crewRows = {} /\ pc \notin {"enter", "fetch"}) =>
    /\ pc \in {"raise", "failed"}
    /\ error = "IndexError"
    /\ pirate_crew = << >>
    /\ members = << >>
    /\ printed = << >>
    /\ relQueries = << >>
    /\ pc = "failed" => sessScope = "Closed"

C10_Witness ==
  /\ routine = "fix_with_loading_techniques"
  /\ tables
  /\ crewRows = {}
  /\ pc = "failed"
  /\ error = "IndexError"
  /\ sessScope = "Closed"

\* C10 as stated: whenever no crew row exists, each read routine fails with
\* IndexError at the indexing of the fetch result.
C10_NoRowIndexError ==
  (routine \in ReadRoutines /\ crewRows = {} /\ pc \notin {"enter", "fetch"}) =>
    /\ pc \in {"raise", "failed"}
    /\ error = "IndexError"
    /\ relQueries = << >>
    /\ printed = << >>

====
